---- MODULE Spec2Model ----
(***************************************************************************)
(* The Riot API client of dags/riot.py as a state machine.                 *)
(*                                                                         *)
(* A "call" is one invocation of RiotApiClient._get together with the      *)
(* endpoint method wrapping it (get_challenger_league, get_summoner_by_id, *)
(* get_match_ids_by_puuid, get_match).  A call moves between the           *)
(* suspension points of _get: awaiting the HTTP response ("await") and     *)
(* awaiting asyncio.sleep(60) ("sleep").  The code between two suspension  *)
(* points runs without interleaving on the event loop and is one step.     *)
(*                                                                         *)
(* The "operation" is the coroutine the caller runs: a bare _get,          *)
(* get_top_players or get_matches_for_summoners.  The completion of a call *)
(* resumes the operation when that completes what the operation awaits.    *)
(*                                                                         *)
(* Of dags/lol.py the module has the task combine_matches and the dumping  *)
(* of the decoded entities that fetch_top_players and fetch_matches do;    *)
(* there the operation is the task, or model_validate followed by          *)
(* model_dump, and no call is made.                                        *)
(***************************************************************************)
EXTENDS Integers, Sequences, FiniteSets, TLC

VARIABLES
    calls,                  \* every call made so far, in creation order
    throttle,               \* environment: 429 answers the server will still give
    faultKinds,             \* environment: error statuses / transport errors that can occur
    opName,                 \* the operation the caller runs
    pcOp,                   \* where the operation is suspended, or "done"
    args,                   \* the arguments the operation was called with
    challenger_entries,     \* get_top_players: local
    top_entries,            \* get_top_players: local
    all_match_ids,          \* get_matches_for_summoners: local
    unique_match_ids,       \* get_matches_for_summoners: local
    tasks,                  \* the calls the operation currently awaits (gather's children)
    opOut,                  \* the outcome of the operation
    doneLog                 \* history: the children of the pending gather that
                            \* have completed, in the order of their completion

envVars == <<throttle, faultKinds>>
topVars == <<challenger_entries, top_entries>>
matchVars == <<all_match_ids, unique_match_ids>>
opVars == <<opName, args, pcOp, tasks, opOut>>
vars == <<calls, envVars, topVars, matchVars, opVars, doneLog>>

----------------------------------------------------------------------------
(* Bounds of the model *)

\* 429 answers the server can give during a bare _get
GetThrottle == 5
\* 429 answers the server can give during a fan-out operation
FanThrottle == 1
\* longest league-entry list the server returns
MaxEntries == 3
\* largest count passed to get_top_players
MaxCount == 2
\* longest list of summoners passed to get_matches_for_summoners
MaxSummoners == 2
\* largest matches_per_summoner passed to get_matches_for_summoners
MaxPerSummoner == 2

----------------------------------------------------------------------------
(* Configuration of the client *)

Region == "na1"
Routing == "americas"
Queue == "RANKED_SOLO_5x5"
api_key == "YOUR-RIOT-API-KEY"
headers == [X_Riot_Token |-> api_key]
None == <<>>

LeagueUrl(queue) ==
    <<"https://", Region, ".api.riotgames.com/lol/league/v4/challengerleagues/by-queue/", queue>>
SummonerUrl(summoner_id) ==
    <<"https://", Region, ".api.riotgames.com/lol/summoner/v4/summoners/", summoner_id>>
MatchIdsUrl(puuid) ==
    <<"https://", Routing, ".api.riotgames.com/lol/match/v5/matches/by-puuid/", puuid, "/ids">>
MatchUrl(match_id) ==
    <<"https://", Routing, ".api.riotgames.com/lol/match/v5/matches/", match_id>>

----------------------------------------------------------------------------
(* Outcomes of coroutines *)

Pending == [tag |-> "pending"]
Return(v) == [tag |-> "return", value |-> v]
Raise(e) == [tag |-> "raise", exc |-> e]

HTTPStatusError(response) ==
    [type |-> "HTTPStatusError", status |-> response.status, response |-> response]
TransportError(response) ==
    [type |-> "TransportError", cause |-> response.cause]
ValidationError(model) ==
    [type |-> "ValidationError", model |-> model]

----------------------------------------------------------------------------
(* Wire records (camelCase keys) and the pydantic models decoded from them *)

Min(a, b) == IF a < b THEN a ELSE b
Max(a, b) == IF a > b THEN a ELSE b

SummonerIds == <<"s1", "s2", "s3", "s4", "s5">>
PuuidOf == [s1 |-> "p1", s2 |-> "p2", s3 |-> "p3", s4 |-> "p4", s5 |-> "p5"]
LeaguePointValues == {900, 1200}
MatchIds == {"A", "B"}

\* class LeagueEntry: summoner_id and league_points are required, wins and
\* losses default to 0; keys are read by their camelCase alias
LeagueEntry(entry) ==
    [summoner_id |-> entry.summonerId,
     league_points |-> entry.leaguePoints,
     wins |-> IF "wins" \in DOMAIN entry THEN entry.wins ELSE 0,
     losses |-> IF "losses" \in DOMAIN entry THEN entry.losses ELSE 0]

LeagueEntryValid(entry) == {"summonerId", "leaguePoints"} \subseteq DOMAIN entry

\* class Summoner: all four fields are required
Summoner(data) ==
    [id |-> data.id,
     account_id |-> data.accountId,
     puuid |-> data.puuid,
     summoner_level |-> data.summonerLevel]

SummonerValid(data) == {"id", "accountId", "puuid", "summonerLevel"} \subseteq DOMAIN data

\* class MatchMetadata
MatchMetadata(data) ==
    [data_version |-> data.dataVersion,
     match_id |-> data.matchId,
     participants |-> data.participants]

MatchMetadataValid(data) == {"dataVersion", "matchId", "participants"} \subseteq DOMAIN data

\* A JSON number in a field that pydantic reads as a point in time is written
\* [unix |-> n], and a datetime [utc_us |-> microseconds since the epoch], so
\* that the two are values of one kind that differ, as in Python a datetime
\* never equals a number.
Timestamp(n) == [unix |-> n]

\* a datetime field: a datetime is kept; a number is taken as Unix time, in
\* seconds up to a magnitude of 2 * 10^10, as the timestamps of the model are
datetime(v) == IF "unix" \in DOMAIN v THEN [utc_us |-> v.unix * 1000000] ELSE v

\* class Participant: all eleven fields are required; vision_score is a
\* float, and a float equals the integer it was read from
Participant(data) ==
    [puuid |-> data.puuid,
     champion_id |-> data.championId,
     champion_name |-> data.championName,
     win |-> data.win,
     kills |-> data.kills,
     deaths |-> data.deaths,
     assists |-> data.assists,
     total_damage_dealt_to_champions |-> data.totalDamageDealtToChampions,
     gold_earned |-> data.goldEarned,
     vision_score |-> data.visionScore,
     total_minions_killed |-> data.totalMinionsKilled]

ParticipantValid(data) ==
    {"puuid", "championId", "championName", "win", "kills", "deaths", "assists",
     "totalDamageDealtToChampions", "goldEarned", "visionScore", "totalMinionsKilled"}
        \subseteq DOMAIN data

\* class MatchInfo
MatchInfo(data) ==
    [game_creation |-> datetime(data.gameCreation),
     game_duration |-> data.gameDuration,
     game_mode |-> data.gameMode,
     game_type |-> data.gameType,
     game_version |-> data.gameVersion,
     map_id |-> data.mapId,
     participants |-> [i \in DOMAIN data.participants |-> Participant(data.participants[i])]]

MatchInfoValid(data) ==
    /\ {"gameCreation", "gameDuration", "gameMode", "gameType", "gameVersion", "mapId",
        "participants"} \subseteq DOMAIN data
    /\ \A i \in DOMAIN data.participants : ParticipantValid(data.participants[i])

\* class Match
Match(data) == [metadata |-> MatchMetadata(data.metadata), info |-> MatchInfo(data.info)]

MatchValid(data) ==
    /\ {"metadata", "info"} \subseteq DOMAIN data
    /\ MatchMetadataValid(data.metadata)
    /\ MatchInfoValid(data.info)

\* model_dump(by_alias=True): the fields of the model under their camelCase
\* aliases, nested models dumped likewise, every value as the model holds it
LeagueEntryDump(entry) ==
    [summonerId |-> entry.summoner_id,
     leaguePoints |-> entry.league_points,
     wins |-> entry.wins,
     losses |-> entry.losses]

\* seeded fault: the dump is made without by_alias and has the field names
SummonerDumpByFieldName(summoner) ==
    [id |-> summoner.id,
     account_id |-> summoner.account_id,
     puuid |-> summoner.puuid,
     summoner_level |-> summoner.summoner_level]

SummonerDump(summoner) ==
    [id |-> summoner.id,
     accountId |-> summoner.account_id,
     puuid |-> summoner.puuid,
     summonerLevel |-> summoner.summoner_level]

ParticipantDump(participant) ==
    [puuid |-> participant.puuid,
     championId |-> participant.champion_id,
     championName |-> participant.champion_name,
     win |-> participant.win,
     kills |-> participant.kills,
     deaths |-> participant.deaths,
     assists |-> participant.assists,
     totalDamageDealtToChampions |-> participant.total_damage_dealt_to_champions,
     goldEarned |-> participant.gold_earned,
     visionScore |-> participant.vision_score,
     totalMinionsKilled |-> participant.total_minions_killed]

MatchMetadataDump(metadata) ==
    [dataVersion |-> metadata.data_version,
     matchId |-> metadata.match_id,
     participants |-> metadata.participants]

MatchInfoDump(info) ==
    [gameCreation |-> info.game_creation,
     gameDuration |-> info.game_duration,
     gameMode |-> info.game_mode,
     gameType |-> info.game_type,
     gameVersion |-> info.game_version,
     mapId |-> info.map_id,
     participants |-> [i \in DOMAIN info.participants |->
                         ParticipantDump(info.participants[i])]]

MatchDump(match) ==
    [metadata |-> MatchMetadataDump(match.metadata), info |-> MatchInfoDump(match.info)]

\* What the server sends for a summoner, and a body that lacks a required key
SummonerBody(summoner_id) ==
    [id |-> summoner_id, accountId |-> "acct", puuid |-> PuuidOf[summoner_id],
     summonerLevel |-> 30]
BadSummonerBody(summoner_id) == [id |-> summoner_id, accountId |-> "acct"]

\* What the server sends for a match
MatchBody(match_id, duration) ==
    [metadata |-> [dataVersion |-> 2, matchId |-> match_id, participants |-> <<"p1", "p2">>],
     info |-> [gameCreation |-> Timestamp(1000), gameDuration |-> duration, gameMode |-> "CLASSIC",
               gameType |-> "MATCHED_GAME", gameVersion |-> "15.9", mapId |-> 11,
               participants |-> <<>>]]
BadMatchBody(match_id) ==
    [metadata |-> [dataVersion |-> 2, matchId |-> match_id, participants |-> <<"p1", "p2">>]]

\* The league-entry lists the server can send: entry i carries summonerId
\* SummonerIds[i] and any of the league-point values
EntryLists ==
    UNION {[1..n -> LeaguePointValues] : n \in 0..MaxEntries}
LeagueBody(points) ==
    [tier |-> "CHALLENGER",
     entries |-> [i \in 1..Len(points) |->
                    [summonerId |-> SummonerIds[i], leaguePoints |-> points[i]]]]
EmptyLeagueBody == [tier |-> "CHALLENGER"]

\* The match-ID lists the server can send for a request of at most n IDs:
\* duplicate-free, newest first ("A" is newer than "B")
Newer(a, b) == a = "A" /\ b = "B"
MatchIdLists(n) ==
    {l \in UNION {[1..k -> MatchIds] : k \in 0..n} :
        \A i, j \in 1..Len(l) : i < j => Newer(l[i], l[j])}

----------------------------------------------------------------------------
(* RiotApiClient._get *)

max_retries == 5

\* the request client.get sends: self.client.get(url, headers=self.headers, params=params)
Request(url, params) == [url |-> url, headers |-> headers, params |-> params]

\* a call at its first suspension point: retry_count = 0 < max_retries, the
\* first request is out
NewCall(kind, arg, url, params) ==
    [kind |-> kind, arg |-> arg, url |-> url, params |-> params,
     pc |-> "await", retry_count |-> 0,
     reqs |-> <<Request(url, params)>>,     \* history: the requests sent
     resps |-> <<>>,                         \* history: the responses received
     sleeps |-> 0,                           \* history: asyncio.sleep(60) calls made
     log |-> <<>>,                           \* the progress lines printed
     got |-> Pending,                        \* outcome of _get
     out |-> Pending]                        \* outcome of the endpoint method

\* seeded fault: the loop condition lets one more attempt through
LoopContinuesOnceMore(retry_count) == retry_count <= max_retries

\* while retry_count < max_retries
LoopContinues(retry_count) == retry_count < max_retries

\* response.raise_for_status() raises unless the status is 2xx
IsSuccess(status) == status \in 200..299

\* seeded fault: server errors are retried like a 429
IsRateLimitedOrServerError(status) == status = 429 \/ status >= 500

\* if e.response.status_code == 429
IsRateLimited(status) == status = 429

\* raise Exception(f"Rate limit exceeded after {max_retries} retries")
RateLimitExceeded ==
    [type |-> "Exception", message |-> "Rate limit exceeded after retries",
     retries |-> max_retries]

\* seeded fault: the 429 that uses up the retries is not waited for
OnRateLimitedRaiseOnLast(call) ==
    IF call.retry_count + 1 < max_retries
        THEN [call EXCEPT !.retry_count = @ + 1,
                          !.log = Append(@, [attempt |-> call.retry_count + 1,
                                             max |-> max_retries]),
                          !.sleeps = @ + 1,
                          !.pc = "sleep"]
        ELSE [call EXCEPT !.retry_count = @ + 1, !.got = Raise(RateLimitExceeded)]

\* the except branch of a 429: count, print, sleep
OnRateLimited(call) ==
    [call EXCEPT !.retry_count = @ + 1,
                 !.log = Append(@, [attempt |-> call.retry_count + 1, max |-> max_retries]),
                 !.sleeps = @ + 1,
                 !.pc = "sleep"]

\* except httpx.HTTPStatusError, status other than 429: raise
OnStatusError(call, r) == [call EXCEPT !.got = Raise(HTTPStatusError(r))]

\* seeded fault: a transport error is retried like a 429
OnOtherExceptionRetry(call, r) == OnRateLimited(call)

\* except Exception as e: raise
OnOtherException(call, r) == [call EXCEPT !.got = Raise(TransportError(r))]

\* the try block and its except clauses, from the arrival of the response
HandleResponse(call, r) ==
    LET seen == [call EXCEPT !.resps = Append(@, r)]
    IN  IF r.kind = "transport"
            THEN OnOtherException(seen, r)
        ELSE IF IsSuccess(r.status)
            THEN [seen EXCEPT !.got = Return(r.body)]
        ELSE IF IsRateLimited(r.status)
            THEN OnRateLimited(seen)
        ELSE OnStatusError(seen, r)

\* seeded fault: the retry drops the query parameters
RetryWithoutParams(call) ==
    [call EXCEPT !.pc = "await", !.reqs = Append(@, Request(call.url, None))]

\* asyncio.sleep(60) is over: the loop condition is tested again and either
\* the same request goes out again (Retry) or the loop ends and _get raises
Retry(call) ==
    [call EXCEPT !.pc = "await", !.reqs = Append(@, Request(call.url, call.params))]

AfterSleep(call) ==
    IF LoopContinues(call.retry_count)
        THEN Retry(call)
        ELSE [call EXCEPT !.got = Raise(RateLimitExceeded)]

----------------------------------------------------------------------------
(* The endpoint methods, from the return of _get *)

get_challenger_league(got) ==
    IF got.tag = "raise" THEN got
    ELSE LET data == got.value
             entries == IF "entries" \in DOMAIN data THEN data.entries ELSE <<>>
         IN  IF \A i \in 1..Len(entries) : LeagueEntryValid(entries[i])
                 THEN Return([i \in 1..Len(entries) |-> LeagueEntry(entries[i])])
                 ELSE Raise(ValidationError("LeagueEntry"))

get_summoner_by_id(got) ==
    IF got.tag = "raise" THEN got
    ELSE IF SummonerValid(got.value) THEN Return(Summoner(got.value))
    ELSE Raise(ValidationError("Summoner"))

get_match_ids_by_puuid(got) == got

get_match(got) ==
    IF got.tag = "raise" THEN got
    ELSE IF MatchValid(got.value) THEN Return(Match(got.value))
    ELSE Raise(ValidationError("Match"))

EndpointOutcome(kind, got) ==
    CASE kind = "league" -> get_challenger_league(got)
      [] kind = "summoner" -> get_summoner_by_id(got)
      [] kind = "match_ids" -> get_match_ids_by_puuid(got)
      [] kind = "match" -> get_match(got)
      [] OTHER -> got

\* a call whose _get has returned or raised runs its endpoint method to the end
Settle(call) ==
    IF call.got.tag = "pending" THEN call
    ELSE [call EXCEPT !.pc = "done", !.out = EndpointOutcome(call.kind, call.got)]

----------------------------------------------------------------------------
(* Python built-ins used by the operations *)

Range(s) == {s[i] : i \in DOMAIN s}

\* seeded fault: the slice keeps one element too many
SliceOneMore(seq, n) ==
    SubSeq(seq, 1, IF n < 0 THEN Max(Len(seq) + n, 0) ELSE Min(n + 1, Len(seq)))

\* seq[:n]
Slice(seq, n) ==
    SubSeq(seq, 1, IF n < 0 THEN Max(Len(seq) + n, 0) ELSE Min(n, Len(seq)))

\* seeded fault: an element goes before the elements of equal key, as when an
\* ascending sort is reversed
InsertByLeaguePointsBeforeTies(s, e) ==
    LET k == Cardinality({i \in 1..Len(s) : s[i].league_points > e.league_points})
    IN  SubSeq(s, 1, k) \o <<e>> \o SubSeq(s, k + 1, Len(s))

\* one step of the stable descending sort: e, which came after every element
\* of the sorted s in the input, goes behind the elements whose key is not smaller
InsertByLeaguePoints(s, e) ==
    LET k == Cardinality({i \in 1..Len(s) : s[i].league_points >= e.league_points})
    IN  SubSeq(s, 1, k) \o <<e>> \o SubSeq(s, k + 1, Len(s))

\* sorted(challenger_entries, key=lambda entry: entry.league_points, reverse=True)
RECURSIVE SortedByLeaguePoints(_)
SortedByLeaguePoints(entries) ==
    IF entries = <<>> THEN <<>>
    ELSE InsertByLeaguePoints(SortedByLeaguePoints(SubSeq(entries, 1, Len(entries) - 1)),
                              entries[Len(entries)])

\* [match_id for sublist in all_match_ids for match_id in sublist]
RECURSIVE Flatten(_)
Flatten(lists) ==
    IF lists = <<>> THEN <<>> ELSE Head(lists) \o Flatten(Tail(lists))

\* the lists that list(s) can be for a set s: iteration order is unspecified
Orderings(S) == {l \in [1..Cardinality(S) -> S] : Range(l) = S}

\* seeded fault: the IDs are flattened and not deduplicated
UniqueMatchIdsNoDedup(lists) == {Flatten(lists)}

\* list(set(match_id for sublist in all_match_ids for match_id in sublist))
UniqueMatchIds(lists) == Orderings(Range(Flatten(lists)))

\* seeded fault: the results are collected in the order of completion
GatherResultInCompletionOrder(cs, ts, log) == [i \in 1..Len(ts) |-> cs[log[i]].out.value]

\* asyncio.gather(*tasks), all children returned: their results in the order
\* of the awaitables; log is the order in which they completed
GatherResult(cs, ts, log) == [i \in 1..Len(ts) |-> cs[ts[i]].out.value]

\* seeded fault: the wait ends only when every child is done, and then raises
\* the exception of the first child, in the order of the awaitables, that raised
GatherWaitsForAll(cs, ts, log, c) ==
    IF \E t \in Range(ts) : cs[t].pc # "done" THEN Pending
    ELSE IF \E i \in 1..Len(ts) : cs[ts[i]].out.tag = "raise"
        THEN cs[ts[CHOOSE i \in 1..Len(ts) :
                      /\ cs[ts[i]].out.tag = "raise"
                      /\ \A j \in 1..(i - 1) : cs[ts[j]].out.tag # "raise"]].out
    ELSE Return(GatherResult(cs, ts, log))

\* seeded fault: the wait ends when the first child returns, with the
\* results of the children done by then
GatherReturnsEarly(cs, ts, log, c) ==
    IF cs[c].out.tag = "raise" THEN cs[c].out
    ELSE LET done == SelectSeq(ts, LAMBDA t : cs[t].pc = "done")
         IN  Return([i \in 1..Len(done) |-> cs[done[i]].out.value])

\* seeded fault: the wait goes on until every child has returned, so that it
\* never ends once a child has raised
GatherUntilAllReturn(cs, ts, log, c) ==
    IF \E t \in Range(ts) : cs[t].out.tag # "return" THEN Pending
    ELSE Return(GatherResult(cs, ts, log))

\* await asyncio.gather(*tasks) when child c completes: the first child to
\* raise ends the wait with its exception, while the other children run on
\* and their outcomes are dropped; when every child has returned the wait
\* ends with their results; otherwise the wait goes on
Gather(cs, ts, log, c) ==
    IF cs[c].out.tag = "raise" THEN cs[c].out
    ELSE IF \E t \in Range(ts) : cs[t].pc # "done" THEN Pending
    ELSE Return(GatherResult(cs, ts, log))

----------------------------------------------------------------------------
(* The operations, resumed when what they await completes.  cs is the new  *)
(* value of calls, log the new value of doneLog.                           *)

\* _get as called directly: its outcome is the caller's
GetReturns(cs, result) ==
    /\ calls' = cs
    /\ opOut' = Return(result[1])
    /\ pcOp' = "done"
    /\ UNCHANGED <<opName, args, tasks, topVars, matchVars>>

\* get_top_players from the return of get_challenger_league to gather
TopPlayersAfterLeague(cs, result) ==
    LET entries == result[1]
        sorted_entries == SortedByLeaguePoints(entries)
        top == Slice(sorted_entries, args.count)
        new == [i \in 1..Len(top) |->
                   NewCall("summoner", top[i].summoner_id,
                           SummonerUrl(top[i].summoner_id), None)]
    IN  /\ challenger_entries' = entries
        /\ top_entries' = top
        /\ calls' = cs \o new
        /\ tasks' = [i \in 1..Len(top) |-> Len(cs) + i]
        /\ IF Len(top) = 0
               THEN pcOp' = "done" /\ opOut' = Return(<<>>)
               ELSE pcOp' = "summoners" /\ opOut' = opOut
        /\ UNCHANGED <<opName, args, matchVars>>

\* get_top_players: return await asyncio.gather(*tasks)
TopPlayersReturns(cs, result) ==
    /\ calls' = cs
    /\ opOut' = Return(result)
    /\ pcOp' = "done"
    /\ UNCHANGED <<opName, args, tasks, topVars, matchVars>>

\* get_matches_for_summoners from the first gather to the second
MatchesAfterIds(cs, result) ==
    \E unique \in UniqueMatchIds(result) :
        LET new == [i \in 1..Len(unique) |->
                       NewCall("match", unique[i], MatchUrl(unique[i]), None)]
        IN  /\ all_match_ids' = result
            /\ unique_match_ids' = unique
            /\ calls' = cs \o new
            /\ tasks' = [i \in 1..Len(unique) |-> Len(cs) + i]
            /\ IF Len(unique) = 0
                   THEN pcOp' = "done" /\ opOut' = Return(<<>>)
                   ELSE pcOp' = "matches" /\ opOut' = opOut
            /\ UNCHANGED <<opName, args, topVars>>

\* get_matches_for_summoners: return await asyncio.gather(*match_tasks)
MatchesReturns(cs, result) ==
    /\ calls' = cs
    /\ opOut' = Return(result)
    /\ pcOp' = "done"
    /\ UNCHANGED <<opName, args, tasks, topVars, matchVars>>

\* the operation's await raises: nothing in the operations catches it
OperationRaises(cs, out) ==
    /\ calls' = cs
    /\ opOut' = out
    /\ pcOp' = "done"
    /\ UNCHANGED <<opName, args, tasks, topVars, matchVars>>

\* Call c has completed.  A call the operation does not await (a child of a
\* gather that has already raised) changes nothing else.  Otherwise the
\* operation awaits the calls in tasks, a single awaited coroutine being a
\* wait for one child, and goes on when the wait ends.
Resume(cs, c) ==
    IF pcOp = "done" \/ c \notin Range(tasks)
        THEN calls' = cs /\ UNCHANGED <<opVars, topVars, matchVars, doneLog>>
        ELSE LET log == Append(doneLog, c)
                 waited == Gather(cs, tasks, log, c)
             IN  /\ CASE waited.tag = "pending" ->
                            calls' = cs /\ UNCHANGED <<opVars, topVars, matchVars>>
                      [] waited.tag = "raise" -> OperationRaises(cs, waited)
                      [] pcOp = "get" -> GetReturns(cs, waited.value)
                      [] pcOp = "league" -> TopPlayersAfterLeague(cs, waited.value)
                      [] pcOp = "summoners" -> TopPlayersReturns(cs, waited.value)
                      [] pcOp = "match_ids" -> MatchesAfterIds(cs, waited.value)
                      [] pcOp = "matches" -> MatchesReturns(cs, waited.value)
                 /\ doneLog' = IF pcOp' \in {"done", pcOp} THEN log ELSE <<>>

\* seeded fault: retry_count is one counter shared by the calls, so that a
\* 429 answered to one call counts for every call still running
ProgressSharedCounter(c, call2) ==
    LET counted == call2.retry_count > calls[c].retry_count
        cs == [d \in DOMAIN calls |->
                 IF d = c THEN Settle(call2)
                 ELSE IF counted /\ calls[d].pc # "done"
                     THEN [calls[d] EXCEPT !.retry_count = @ + 1]
                 ELSE calls[d]]
    IN  IF cs[c].pc = "done"
            THEN Resume(cs, c)
            ELSE calls' = cs /\ UNCHANGED <<opVars, topVars, matchVars, doneLog>>

\* call c moves to call2
Progress(c, call2) ==
    LET cs == [calls EXCEPT ![c] = Settle(call2)]
    IN  IF cs[c].pc = "done"
            THEN Resume(cs, c)
            ELSE calls' = cs /\ UNCHANGED <<opVars, topVars, matchVars, doneLog>>

----------------------------------------------------------------------------
(* The environment: what the server and the network can answer *)

\* the JSON bodies a bare _get can receive
JsonPayloads == {[ok |-> TRUE], [ok |-> FALSE]}

\* The JSON bodies a 2xx response to a call can carry.  The client does not
\* compare a body with what it asked for: the summoner endpoint answers with
\* the summoner asked for, or with a body that lacks a required key; the
\* match endpoint answers with the match asked for, with match "A" whatever
\* was asked for, or with a body that lacks a required key.
Bodies(call) ==
    CASE call.kind = "league" ->
            {LeagueBody(points) : points \in EntryLists} \cup {EmptyLeagueBody}
      [] call.kind = "summoner" ->
            {SummonerBody(call.arg)}
            \cup (IF faultKinds.bad THEN {BadSummonerBody(call.arg)} ELSE {})
      [] call.kind = "match_ids" ->
            MatchIdLists(call.params.count)
      [] call.kind = "match" ->
            {MatchBody(m, 1800) : m \in {call.arg, "A"}}
            \cup (IF faultKinds.bad THEN {BadMatchBody(call.arg)} ELSE {})
      [] OTHER -> JsonPayloads

\* a 2xx response arrives
DeliverOk ==
    \E c \in DOMAIN calls :
        /\ calls[c].pc = "await"
        /\ \E body \in Bodies(calls[c]) :
             Progress(c, HandleResponse(calls[c],
                                        [kind |-> "http", status |-> 200, body |-> body]))
        /\ UNCHANGED envVars

\* a response with an error status arrives
DeliverStatus ==
    \E c \in DOMAIN calls :
        /\ calls[c].pc = "await"
        /\ \E status \in faultKinds.statuses \cup (IF throttle > 0 THEN {429} ELSE {}) :
             /\ Progress(c, HandleResponse(calls[c], [kind |-> "http", status |-> status]))
             /\ throttle' = IF status = 429 THEN throttle - 1 ELSE throttle
        /\ UNCHANGED faultKinds

\* client.get raises: timeout or connection failure
DeliverTransport ==
    \E c \in DOMAIN calls :
        /\ calls[c].pc = "await"
        /\ \E cause \in faultKinds.causes :
             Progress(c, HandleResponse(calls[c], [kind |-> "transport", cause |-> cause]))
        /\ UNCHANGED envVars

\* asyncio.sleep(60) returns
Wake ==
    \E c \in DOMAIN calls :
        /\ calls[c].pc = "sleep"
        /\ Progress(c, AfterSleep(calls[c]))
        /\ UNCHANGED envVars

----------------------------------------------------------------------------
(* A bare _get *)

\* The errors that can occur.  The operations treat every exception of a call
\* alike, so a fan-out meets one error status, one transport error and the
\* bodies that do not decode, while a bare _get meets two of each kind of
\* error and every body is taken as it is.
GetFaults == [statuses |-> {404, 500}, causes |-> {"timeout", "connect"}, bad |-> FALSE]
FanFaults == [statuses |-> {500}, causes |-> {"timeout"}, bad |-> TRUE]

NoLocals ==
    /\ challenger_entries = <<>>
    /\ top_entries = <<>>
    /\ all_match_ids = <<>>
    /\ unique_match_ids = <<>>

InitGet ==
    /\ opName = "_get"
    /\ args \in [url : {LeagueUrl(Queue), MatchUrl("A")},
                 params : {None, [count |-> 5, start |-> 0]}]
    /\ throttle = GetThrottle
    /\ faultKinds = GetFaults
    /\ calls = <<>> /\ tasks = <<>> /\ doneLog = <<>>
    /\ pcOp = "start" /\ opOut = Pending
    /\ NoLocals

\* await self._get(url, params), up to the first suspension
get ==
    /\ opName = "_get" /\ pcOp = "start"
    /\ calls' = <<NewCall("_get", "", args.url, args.params)>>
    /\ tasks' = <<1>>
    /\ pcOp' = "get"
    /\ UNCHANGED <<opName, args, opOut, envVars, topVars, matchVars, doneLog>>

NextGet == get \/ DeliverOk \/ DeliverStatus \/ DeliverTransport \/ Wake

SpecGet == InitGet /\ [][NextGet]_vars

----------------------------------------------------------------------------
(* get_top_players *)

InitTop ==
    /\ opName = "get_top_players"
    /\ args \in [count : -1..MaxCount]
    /\ throttle = FanThrottle
    /\ faultKinds = FanFaults
    /\ calls = <<>> /\ tasks = <<>> /\ doneLog = <<>>
    /\ pcOp = "start" /\ opOut = Pending
    /\ NoLocals

\* get_top_players(count), up to the first suspension, in get_challenger_league
get_top_players ==
    /\ opName = "get_top_players" /\ pcOp = "start"
    /\ calls' = <<NewCall("league", Queue, LeagueUrl(Queue), None)>>
    /\ tasks' = <<1>>
    /\ pcOp' = "league"
    /\ UNCHANGED <<opName, args, opOut, envVars, topVars, matchVars, doneLog>>

NextTop == get_top_players \/ DeliverOk \/ DeliverStatus \/ DeliverTransport \/ Wake

SpecTop == InitTop /\ [][NextTop]_vars

----------------------------------------------------------------------------
(* get_matches_for_summoners *)

\* the summoners the caller can pass: get_top_players results
SummonerLists ==
    {[i \in 1..n |-> Summoner(SummonerBody(SummonerIds[i]))] : n \in 0..MaxSummoners}

InitMatches ==
    /\ opName = "get_matches_for_summoners"
    /\ args \in [summoners : SummonerLists, matches_per_summoner : {MaxPerSummoner}]
    /\ throttle = FanThrottle
    /\ faultKinds = FanFaults
    /\ calls = <<>> /\ tasks = <<>> /\ doneLog = <<>>
    /\ pcOp = "start" /\ opOut = Pending
    /\ NoLocals

\* get_matches_for_summoners(summoners, matches_per_summoner), up to the
\* first suspension: the first gather, or the end when there is nothing to await
get_matches_for_summoners ==
    /\ opName = "get_matches_for_summoners" /\ pcOp = "start"
    /\ LET match_id_tasks ==
               [i \in 1..Len(args.summoners) |->
                   NewCall("match_ids", args.summoners[i].puuid,
                           MatchIdsUrl(args.summoners[i].puuid),
                           [count |-> args.matches_per_summoner, start |-> 0])]
           ts == [i \in 1..Len(match_id_tasks) |-> i]
       IN  IF Len(match_id_tasks) = 0
               THEN MatchesAfterIds(<<>>, <<>>)
               ELSE /\ calls' = match_id_tasks
                    /\ tasks' = ts
                    /\ pcOp' = "match_ids"
                    /\ UNCHANGED <<opName, args, opOut, topVars, matchVars>>
    /\ UNCHANGED <<envVars, doneLog>>

NextMatches ==
    get_matches_for_summoners \/ DeliverOk \/ DeliverStatus \/ DeliverTransport \/ Wake

SpecMatches == InitMatches /\ [][NextMatches]_vars

----------------------------------------------------------------------------
(* Either fan-out operation *)

InitFan == InitTop \/ InitMatches

NextFan ==
    \/ get_top_players
    \/ get_matches_for_summoners
    \/ DeliverOk
    \/ DeliverStatus
    \/ DeliverTransport
    \/ Wake

SpecFan == InitFan /\ [][NextFan]_vars

----------------------------------------------------------------------------
(* Any of the three operations, the event loop running what is ready: an   *)
(* HTTP attempt ends with an answer or, after the client's timeout, with a *)
(* transport error, and asyncio.sleep(60) returns.                         *)

InitAny == InitGet \/ InitTop \/ InitMatches

NextAny ==
    \/ get
    \/ get_top_players
    \/ get_matches_for_summoners
    \/ DeliverOk
    \/ DeliverStatus
    \/ DeliverTransport
    \/ Wake

FairSpec == InitAny /\ [][NextAny]_vars /\ WF_vars(NextAny)

----------------------------------------------------------------------------
(* dags/lol.py: combine_matches.  The values a task returns reach the task  *)
(* that takes them as they are.                                            *)

\* seeded fault: a match is new unless its match ID was seen
AddUniqueById(unique_matches, match) ==
    IF \E i \in 1..Len(unique_matches) :
           unique_matches[i].metadata.match_id = match.metadata.match_id
        THEN unique_matches
        ELSE Append(unique_matches, match)

\* seeded fault: a match seen again moves to the end
AddUniqueKeepLast(unique_matches, match) ==
    Append(SelectSeq(unique_matches, LAMBDA m : m # match), match)

\* seeded fault: a new match goes to the front
AddUniqueInFront(unique_matches, match) ==
    IF match \in Range(unique_matches) THEN unique_matches
    ELSE <<match>> \o unique_matches

\* if match not in unique_matches: unique_matches.append(match)
AddUnique(unique_matches, match) ==
    IF \E i \in 1..Len(unique_matches) : unique_matches[i] = match
        THEN unique_matches
        ELSE Append(unique_matches, match)

\* unique_matches = []; for match in all_matches: ...
RECURSIVE UniqueMatches(_)
UniqueMatches(all_matches) ==
    IF all_matches = <<>> THEN <<>>
    ELSE AddUnique(UniqueMatches(SubSeq(all_matches, 1, Len(all_matches) - 1)),
                   all_matches[Len(all_matches)])

\* [Match.model_validate(match) for sublist in match_lists for match in sublist]
AllMatches(match_lists) ==
    LET flat == Flatten(match_lists)
    IN  [i \in 1..Len(flat) |-> Match(flat[i])]

\* the function combine_matches, for match lists that validate
combine_matches(match_lists) ==
    LET unique_matches == UniqueMatches(AllMatches(match_lists))
    IN  [i \in 1..Len(unique_matches) |-> MatchDump(unique_matches[i])]

\* the game durations the server reports
GameDurations == {1800, 1900}

\* what fetch_matches returns: match.model_dump(by_alias=True) of the matches
\* get_matches_for_summoners decoded, one for each distinct match ID of at
\* most matches_per_summoner
FetchedMatches ==
    {MatchDump(Match(MatchBody(m, d))) : m \in MatchIds, d \in GameDurations}
FetchedMatchLists ==
    UNION {[1..n -> FetchedMatches] : n \in 0..Min(MaxPerSummoner, Cardinality(MatchIds))}

\* match_lists holds what the fetch_matches tasks returned, one list for each
\* of the top players
InitCombine ==
    /\ opName = "combine_matches"
    /\ args \in [match_lists : UNION {[1..n -> FetchedMatchLists] : n \in 0..MaxSummoners}]
    /\ throttle = 0
    /\ faultKinds = FanFaults
    /\ calls = <<>> /\ tasks = <<>> /\ doneLog = <<>>
    /\ pcOp = "start" /\ opOut = Pending
    /\ NoLocals

\* the task combine_matches runs
CombineMatchesTask ==
    /\ opName = "combine_matches" /\ pcOp = "start"
    /\ opOut' = Return(combine_matches(args.match_lists))
    /\ pcOp' = "done"
    /\ UNCHANGED <<calls, opName, args, tasks, envVars, topVars, matchVars, doneLog>>

NextCombine == CombineMatchesTask

SpecCombine == InitCombine /\ [][NextCombine]_vars

----------------------------------------------------------------------------
(* A response record decoded into an entity and dumped again, as             *)
(* fetch_top_players and fetch_matches do with what the client decoded       *)

\* what the server sends for a participant of a match
ParticipantBody(puuid) ==
    [puuid |-> puuid, championId |-> 103, championName |-> "Ahri", win |-> TRUE,
     kills |-> 7, deaths |-> 2, assists |-> 9, totalDamageDealtToChampions |-> 21000,
     goldEarned |-> 12000, visionScore |-> 25, totalMinionsKilled |-> 180]

\* The records of a response, by the entity they are decoded into.  The
\* server sends keys the entities do not declare (rank, profileIconId,
\* gameId, ...), sends or leaves out the wins and losses of a league entry,
\* and can leave out a key that is required.
LeagueEntryRecords ==
    UNION {{[summonerId |-> SummonerIds[i], leaguePoints |-> lp],
            [summonerId |-> SummonerIds[i], leaguePoints |-> lp, wins |-> 10],
            [summonerId |-> SummonerIds[i], leaguePoints |-> lp, wins |-> 10, losses |-> 5],
            [summonerId |-> SummonerIds[i], leaguePoints |-> lp, wins |-> 10, losses |-> 5,
             rank |-> "I"],
            [summonerId |-> SummonerIds[i], wins |-> 10, losses |-> 5]}
           : i \in 1..2, lp \in LeaguePointValues}

SummonerRecords ==
    UNION {{SummonerBody(SummonerIds[i]),
            SummonerBody(SummonerIds[i]) @@ [profileIconId |-> 7],
            BadSummonerBody(SummonerIds[i])} : i \in 1..2}

ParticipantRecords ==
    UNION {{ParticipantBody(puuid),
            ParticipantBody(puuid) @@ [teamId |-> 100],
            [puuid |-> puuid, championId |-> 103]} : puuid \in {"p1", "p2"}}

MatchMetadataRecords ==
    UNION {{MatchBody(m, 1800).metadata,
            BadMatchBody(m).metadata @@ [extra |-> "x"],
            [matchId |-> m]} : m \in MatchIds}

MatchInfoRecords ==
    UNION {{[MatchBody("A", d).info EXCEPT !.participants = ps],
            [MatchBody("A", d).info EXCEPT !.participants = ps] @@ [gameId |-> 42]}
           : d \in GameDurations,
             ps \in {<<>>, <<ParticipantBody("p1")>>,
                     <<ParticipantBody("p1") @@ [teamId |-> 100], ParticipantBody("p2")>>,
                     <<[puuid |-> "p1"]>>}}

MatchRecords ==
    {BadMatchBody("A")}
    \cup {[metadata |-> metadata, info |-> info] :
            metadata \in {r \in MatchMetadataRecords : r.matchId = "A"},
            info \in {r \in MatchInfoRecords : r.gameDuration = 1800}}

\* model_validate of a model on a record
Validate(model, data) ==
    CASE model = "LeagueEntry" ->
            IF LeagueEntryValid(data) THEN Return(LeagueEntry(data))
            ELSE Raise(ValidationError(model))
      [] model = "Summoner" ->
            IF SummonerValid(data) THEN Return(Summoner(data))
            ELSE Raise(ValidationError(model))
      [] model = "Participant" ->
            IF ParticipantValid(data) THEN Return(Participant(data))
            ELSE Raise(ValidationError(model))
      [] model = "MatchMetadata" ->
            IF MatchMetadataValid(data) THEN Return(MatchMetadata(data))
            ELSE Raise(ValidationError(model))
      [] model = "MatchInfo" ->
            IF MatchInfoValid(data) THEN Return(MatchInfo(data))
            ELSE Raise(ValidationError(model))
      [] model = "Match" ->
            IF MatchValid(data) THEN Return(Match(data))
            ELSE Raise(ValidationError(model))

\* model_dump(by_alias=True) of an entity of a model
Dump(model, entity) ==
    CASE model = "LeagueEntry" -> LeagueEntryDump(entity)
      [] model = "Summoner" -> SummonerDump(entity)
      [] model = "Participant" -> ParticipantDump(entity)
      [] model = "MatchMetadata" -> MatchMetadataDump(entity)
      [] model = "MatchInfo" -> MatchInfoDump(entity)
      [] model = "Match" -> MatchDump(entity)

InitRoundTrip ==
    /\ opName = "model_validate"
    /\ args \in UNION {[model : {"LeagueEntry"}, data : LeagueEntryRecords],
                       [model : {"Summoner"}, data : SummonerRecords],
                       [model : {"Participant"}, data : ParticipantRecords],
                       [model : {"MatchMetadata"}, data : MatchMetadataRecords],
                       [model : {"MatchInfo"}, data : MatchInfoRecords],
                       [model : {"Match"}, data : MatchRecords]}
    /\ throttle = 0
    /\ faultKinds = FanFaults
    /\ calls = <<>> /\ tasks = <<>> /\ doneLog = <<>>
    /\ pcOp = "start" /\ opOut = Pending
    /\ NoLocals

\* Model.model_validate(data): the entity, or a validation error
model_validate ==
    /\ opName = "model_validate" /\ pcOp = "start"
    /\ opOut' = Validate(args.model, args.data)
    /\ IF opOut'.tag = "raise"
           THEN pcOp' = "done" /\ opName' = opName
           ELSE pcOp' = "start" /\ opName' = "model_dump"
    /\ UNCHANGED <<calls, args, tasks, envVars, topVars, matchVars, doneLog>>

\* entity.model_dump(by_alias=True)
model_dump ==
    /\ opName = "model_dump" /\ pcOp = "start"
    /\ opOut' = Return(Dump(args.model, opOut.value))
    /\ pcOp' = "done"
    /\ UNCHANGED <<calls, opName, args, tasks, envVars, topVars, matchVars, doneLog>>

NextRoundTrip == model_validate \/ model_dump

SpecRoundTrip == InitRoundTrip /\ [][NextRoundTrip]_vars

----------------------------------------------------------------------------
(* Properties of _get, checked under SpecGet *)

Is429(r) == r.kind = "http" /\ r.status = 429
Is200(r) == r.kind = "http" /\ r.status = 200
IsOtherStatus(r) == r.kind = "http" /\ r.status \notin 200..299 /\ r.status # 429

\* C1: a call answered 429 k times in a row and then 200 has k < 5, has
\* returned the payload of the 200 and has made exactly k cooldown waits; a
\* call whose first 5 answers are 429 receives no further answer, never
\* returns, and ends raising the rate-limit exception that reports 5.
C1_RetryThenSuccessOrExhaustion ==
    \A c \in DOMAIN calls :
        LET call == calls[c]
            n == Len(call.resps)
        IN  /\ (/\ n >= 1
                /\ Is200(call.resps[n])
                /\ \A i \in 1..(n - 1) : Is429(call.resps[i]))
               => /\ n - 1 < 5
                  /\ call.pc = "done"
                  /\ call.got = Return(call.resps[n].body)
                  /\ call.sleeps = n - 1
                  /\ opOut = call.got
            /\ (n >= 5 /\ \A i \in 1..5 : Is429(call.resps[i]))
               => /\ n = 5
                  /\ call.got.tag # "return"
                  /\ opOut.tag # "return"
                  /\ call.pc \in {"sleep", "done"}
                  /\ call.pc = "done"
                     => /\ call.got =
                             Raise([type |-> "Exception",
                                    message |-> "Rate limit exceeded after retries",
                                    retries |-> 5])
                        /\ opOut = call.got

\* C1 witness: four 429s, then the 200 whose payload is returned
C1_Witness ==
    \E c \in DOMAIN calls :
        /\ Len(calls[c].resps) = 5
        /\ \A i \in 1..4 : Is429(calls[c].resps[i])
        /\ Is200(calls[c].resps[5])
        /\ calls[c].got.tag = "return"
        /\ calls[c].sleeps = 4

\* C2: a call sends at most 5 requests, and every one of them is the first
\* one again: the URL and the query parameters it was called with and the
\* API-key header.
C2_AtMostFiveSameRequests ==
    \A c \in DOMAIN calls :
        /\ Len(calls[c].reqs) <= 5
        /\ \A i \in 1..Len(calls[c].reqs) :
              /\ calls[c].reqs[i] = calls[c].reqs[1]
              /\ calls[c].reqs[i].url = args.url
              /\ calls[c].reqs[i].params = args.params
              /\ calls[c].reqs[i].headers = [X_Riot_Token |-> "YOUR-RIOT-API-KEY"]

\* C2 witness: a call with query parameters that has sent its fifth request
C2_Witness ==
    \E c \in DOMAIN calls :
        /\ Len(calls[c].reqs) = 5
        /\ calls[c].params # None
        /\ \A i \in 1..4 : Is429(calls[c].resps[i])

\* C3: an error status other than 429 is the last answer of its call: the
\* call has raised the status error carrying that status and response, no
\* request was sent after it and no cooldown was made for it.
C3_NoRetryOnOtherStatus ==
    \A c \in DOMAIN calls :
        \A i \in 1..Len(calls[c].resps) :
            IsOtherStatus(calls[c].resps[i])
            => /\ i = Len(calls[c].resps)
               /\ calls[c].pc = "done"
               /\ calls[c].got =
                    Raise([type |-> "HTTPStatusError",
                           status |-> calls[c].resps[i].status,
                           response |-> calls[c].resps[i]])
               /\ opOut = calls[c].got
               /\ Len(calls[c].reqs) = i
               /\ calls[c].sleeps = i - 1

\* C3 witness: the first answer is a 404 and the call made one attempt
C3_Witness ==
    \E c \in DOMAIN calls :
        /\ Len(calls[c].resps) = 1
        /\ IsOtherStatus(calls[c].resps[1])
        /\ calls[c].resps[1].status = 404
        /\ calls[c].got.tag = "raise"
        /\ Len(calls[c].reqs) = 1

\* C4: a transport error is the last event of its call: the call has raised
\* it, no request was sent after it and no cooldown was made for it,
\* whatever number of 429s came before.
C4_NoRetryOnTransportError ==
    \A c \in DOMAIN calls :
        \A i \in 1..Len(calls[c].resps) :
            calls[c].resps[i].kind = "transport"
            => /\ i = Len(calls[c].resps)
               /\ calls[c].pc = "done"
               /\ calls[c].got =
                    Raise([type |-> "TransportError", cause |-> calls[c].resps[i].cause])
               /\ opOut = calls[c].got
               /\ Len(calls[c].reqs) = i
               /\ calls[c].sleeps = i - 1

\* C4 witness: a timeout on the third attempt, after two 429s
C4_Witness ==
    \E c \in DOMAIN calls :
        /\ Len(calls[c].resps) = 3
        /\ Is429(calls[c].resps[1]) /\ Is429(calls[c].resps[2])
        /\ calls[c].resps[3].kind = "transport"
        /\ calls[c].resps[3].cause = "timeout"
        /\ calls[c].got.tag = "raise"

\* C18: a call has made as many cooldown waits as it has received 429
\* answers, and has printed for the n-th of them the line 'Attempt n/5'; a
\* request follows every wait but the fifth, which the failure follows.
C18_CooldownAfterEvery429 ==
    \A c \in DOMAIN calls :
        LET call == calls[c]
            k == Cardinality({i \in 1..Len(call.resps) : Is429(call.resps[i])})
        IN  /\ call.sleeps = k
            /\ call.log = [n \in 1..k |-> [attempt |-> n, max |-> 5]]
            /\ k <= 5
            /\ Len(call.reqs) = IF call.pc = "await" THEN k + 1 ELSE Len(call.resps)
            /\ k < 5 => call.got # Raise(RateLimitExceeded)
            /\ k = 5
               => /\ Len(call.reqs) = 5
                  /\ call.pc \in {"sleep", "done"}
                  /\ call.pc = "done" => call.got = Raise(RateLimitExceeded)

\* C18 witness: a call answered 429 five times has made five cooldown waits
\* and five requests and has failed
C18_Witness ==
    \E c \in DOMAIN calls :
        /\ calls[c].pc = "done"
        /\ calls[c].got = Raise(RateLimitExceeded)
        /\ calls[c].sleeps = 5
        /\ Len(calls[c].log) = 5
        /\ Len(calls[c].reqs) = 5

----------------------------------------------------------------------------
(* Properties of get_top_players, checked under SpecTop *)

\* get_challenger_league has returned
LeagueReturned ==
    Len(calls) >= 1 /\ calls[1].kind = "league" /\ calls[1].out.tag = "return"

\* the entries it returned
LeagueEntries == calls[1].out.value

\* the summoner ids get_summoner_by_id was called with, in the order of the calls
Resolved == [i \in 1..(Len(calls) - 1) |-> calls[i + 1].arg]

\* entries ordered by league_points descending, entries of equal
\* league_points in their order in entries
Ranking(entries) ==
    LET n == Len(entries)
        p == CHOOSE q \in [1..n -> 1..n] :
                \A i, j \in 1..n :
                    i < j => \/ entries[q[i]].league_points > entries[q[j]].league_points
                             \/ /\ entries[q[i]].league_points = entries[q[j]].league_points
                                /\ q[i] < q[j]
    IN  [i \in 1..n |-> entries[p[i]]]

\* how many entries seq[:count] keeps of n
Kept(n) ==
    IF args.count >= 0 THEN Min(args.count, n) ELSE Max(n + args.count, 0)

\* C5 as claimed: the entries resolved are the first min(count, len(entries))
\* of the ranking (none when that number is negative).
C5_ResolvesFirstMinCount ==
    LeagueReturned
    => LET m == Max(Min(args.count, Len(LeagueEntries)), 0)
           ranking == Ranking(LeagueEntries)
       IN  /\ Len(Resolved) = m
           /\ \A i \in 1..m : Resolved[i] = ranking[i].summoner_id

\* C5 amended: for count >= 0 the entries resolved are the first
\* min(count, len(entries)) of the ranking by league_points descending with
\* ties in their original order; for count < 0 they are all of the ranking
\* but its last -count entries.
C5_ResolvesSliceOfRanking ==
    LeagueReturned
    => LET m == Kept(Len(LeagueEntries))
           ranking == Ranking(LeagueEntries)
       IN  /\ Len(Resolved) = m
           /\ \A i \in 1..m : Resolved[i] = ranking[i].summoner_id

\* C5 witness: league points [900, 1200, 1200] and count 2: the two entries
\* tied at 1200 are resolved in their original order
C5_Witness ==
    /\ LeagueReturned
    /\ args.count = 2
    /\ Len(LeagueEntries) = 3
    /\ LeagueEntries[1].league_points = 900
    /\ LeagueEntries[2].league_points = 1200
    /\ LeagueEntries[3].league_points = 1200
    /\ Resolved = <<"s2", "s3">>

\* C6 as claimed: a returned list is no longer than count (than 0 when count
\* is negative).
C6_LengthAtMostCount ==
    opOut.tag = "return" => Len(opOut.value) <= Max(args.count, 0)

\* C6 amended: get_top_players returns Summoner values; for count >= 0 there
\* are at most count of them, for count < 0 there are
\* max(len(entries) + count, 0) of them.
C6_LengthAtMostSliceLength ==
    opOut.tag = "return"
    => /\ \A i \in 1..Len(opOut.value) :
             DOMAIN opOut.value[i] = {"id", "account_id", "puuid", "summoner_level"}
       /\ args.count >= 0 => Len(opOut.value) <= args.count
       /\ args.count < 0 => Len(opOut.value) = Max(Len(LeagueEntries) + args.count, 0)

\* C6 witness: count 2 of three entries, two summoners returned
C6_Witness ==
    /\ opOut.tag = "return"
    /\ args.count = 2
    /\ Len(LeagueEntries) = 3
    /\ Len(opOut.value) = 2

\* C7: the i-th element of the result is the Summoner of the i-th entry of the
\* ranking, decoded from the answer to the i-th call, whatever the order in
\* which the calls completed.
C7_ResultInEntryOrder ==
    opOut.tag = "return"
    => LET ranking == Ranking(LeagueEntries)
       IN  /\ Len(opOut.value) = Kept(Len(LeagueEntries))
           /\ \A i \in 1..Len(opOut.value) :
                 LET call == calls[tasks[i]]
                 IN  /\ call.arg = ranking[i].summoner_id
                     /\ opOut.value[i] = Summoner(call.resps[Len(call.resps)].body)
                     /\ opOut.value[i].id = ranking[i].summoner_id

\* C7 witness: the call for the first entry was held back by a 429 and
\* completed after the call for the second entry
C7_Witness ==
    /\ opOut.tag = "return"
    /\ Len(opOut.value) = 2
    /\ doneLog = <<tasks[2], tasks[1]>>
    /\ calls[tasks[1]].retry_count = 1

----------------------------------------------------------------------------
(* Properties of the fan-out groups, checked under SpecFan *)

Failed(c) == calls[c].out.tag = "raise"

\* the child of the pending gather that raised first
FirstFailed ==
    doneLog[CHOOSE i \in 1..Len(doneLog) :
               /\ Failed(doneLog[i])
               /\ \A j \in 1..(i - 1) : ~Failed(doneLog[j])]

\* the operation fails as soon as a call it awaits fails, with the failure of
\* the first call to fail, and returns only when every call has returned
FirstFailureWins ==
    /\ (\E i \in 1..Len(doneLog) : Failed(doneLog[i]))
       => /\ pcOp = "done"
          /\ opOut = calls[FirstFailed].out
    /\ (\E c \in Range(tasks) : Failed(c))
       => pcOp = "done" /\ opOut.tag = "raise"
    /\ opOut.tag = "raise"
       => \E i \in 1..Len(doneLog) : Failed(doneLog[i])
    /\ opOut.tag = "return"
       => /\ \A c \in DOMAIN calls : calls[c].out.tag = "return"
          /\ Len(opOut.value) = Len(tasks)

\* C8: in get_top_players and get_matches_for_summoners, a failing member
\* call makes the operation fail with the failure of the member that failed
\* first, there is a result only when every member call succeeded, and what
\* the other calls do afterwards changes nothing of the outcome.
C8_FirstFailureAbortsGroup ==
    /\ []FirstFailureWins
    /\ [][pcOp = "done" => pcOp' = "done" /\ opOut' = opOut]_vars

\* C8 witness: the operation has failed with the failure of a member of a
\* group of several, and a sibling failed afterwards
C8_Witness ==
    /\ pcOp = "done"
    /\ opOut.tag = "raise"
    /\ Len(tasks) >= 2
    /\ opOut = calls[FirstFailed].out
    /\ \E t \in Range(tasks) :
          /\ t \notin Range(doneLog)
          /\ Failed(t)
          /\ calls[t].out # opOut

\* the body of a 2xx response to a call of this kind has the shape the
\* endpoint's return type declares: a league with its list of entries, a
\* summoner, a list of match-ID strings, a match
MatchesSchema(kind, body) ==
    CASE kind = "league" ->
            /\ "entries" \in DOMAIN body
            /\ \A i \in DOMAIN body.entries : LeagueEntryValid(body.entries[i])
      [] kind = "summoner" -> SummonerValid(body)
      [] kind = "match_ids" -> body \in MatchIdLists(MaxPerSummoner)
      [] kind = "match" -> MatchValid(body)

\* C13 as claimed: a call whose 2xx response does not have the shape its
\* endpoint expects raises a validation error, and the operation fails.
C13_BadBodyFailsDecode ==
    \A c \in DOMAIN calls :
        (/\ calls[c].got.tag = "return"
         /\ ~MatchesSchema(calls[c].kind, calls[c].got.value))
        => /\ calls[c].out.tag = "raise"
           /\ calls[c].out.exc.type = "ValidationError"
           /\ pcOp = "done"
           /\ opOut.tag = "raise"

\* the 429 answers call c has received
RateLimits(c) == Cardinality({i \in 1..Len(calls[c].resps) : Is429(calls[c].resps[i])})

\* call d receives a 2xx answer
Completes(d) ==
    /\ calls[d].pc = "await"
    /\ \E body \in Bodies(calls[d]) :
         Progress(d, HandleResponse(calls[d],
                                    [kind |-> "http", status |-> 200, body |-> body]))
    /\ UNCHANGED envVars

\* a call counts, and waits for, its own 429 answers and no others; its
\* request is out whenever it is not waiting or done; and while a call of
\* the group is in its cooldown, a sibling that awaits its answer can receive
\* it and complete
OwnRetryBudget ==
    /\ \A c \in DOMAIN calls :
          /\ calls[c].retry_count = RateLimits(c)
          /\ calls[c].sleeps = RateLimits(c)
          /\ Len(calls[c].reqs) = Len(calls[c].resps) + (IF calls[c].pc = "await" THEN 1 ELSE 0)
          /\ calls[c].pc = "sleep" => Is429(calls[c].resps[Len(calls[c].resps)])
          /\ (calls[c].pc = "done" /\ calls[c].got = Raise(RateLimitExceeded))
             => RateLimits(c) = max_retries
    /\ \A c, d \in Range(tasks) :
          (calls[c].pc = "sleep" /\ calls[d].pc = "await") => ENABLED Completes(d)

\* a step changes at most one of the calls there are
OneCallPerStep ==
    Cardinality({c \in DOMAIN calls : calls'[c] # calls[c]}) <= 1

\* C14: each call of a fan-out keeps its own retry counter and makes its own
\* cooldowns: a 429 answered to one call changes no other call, and a sibling
\* that is not rate-limited can complete while the call is in its cooldown.
C14_SiblingsIndependent ==
    /\ []OwnRetryBudget
    /\ [][OneCallPerStep]_vars

\* C14 witness: a call of a group of two is in its cooldown after a 429 and
\* its sibling, never rate-limited, has returned
C14_Witness ==
    \E c, d \in Range(tasks) :
        /\ c # d
        /\ calls[c].pc = "sleep" /\ calls[c].retry_count = 1
        /\ calls[d].pc = "done" /\ calls[d].out.tag = "return"
        /\ calls[d].retry_count = 0 /\ calls[d].sleeps = 0
        /\ pcOp # "done"

\* the calls of a kind made so far; a call has its first request out from
\* the moment it is made
CallsOf(kind) == {c \in DOMAIN calls : calls[c].kind = kind}

\* C16: a summoner request exists only when the challenger-league call has
\* returned; a match-detail request exists only when there is a match-ID
\* call for every summoner and each of them has returned; when a match-ID
\* call has failed there is no match-detail request, then or later.
C16_PhasesOrderedByJoins ==
    /\ CallsOf("summoner") # {}
       => /\ CallsOf("league") = {1}
          /\ calls[1].out.tag = "return"
          /\ \A c \in CallsOf("summoner") : c > 1
    /\ CallsOf("match") # {}
       => /\ CallsOf("match_ids") = 1..Len(args.summoners)
          /\ \A d \in CallsOf("match_ids") : calls[d].out.tag = "return"
          /\ \A c \in CallsOf("match") : c > Len(args.summoners)
    /\ (\E d \in CallsOf("match_ids") : calls[d].out.tag = "raise")
       => /\ CallsOf("match") = {}
          /\ pcOp = "done" /\ opOut.tag = "raise"

\* C16 witness: the match-detail requests are out, after two match-ID calls
\* of which the first was held back by a 429 and returned last
C16_Witness ==
    /\ CallsOf("match") # {}
    /\ Len(args.summoners) = 2
    /\ calls[1].retry_count = 1
    /\ calls[1].out.tag = "return" /\ calls[2].out.tag = "return"
    /\ \A c \in CallsOf("match") : Len(calls[c].reqs) = 1

----------------------------------------------------------------------------
(* Termination, checked under FairSpec *)

\* the operation and every call it made have returned or raised
AllSettled ==
    /\ pcOp = "done"
    /\ opOut.tag \in {"return", "raise"}
    /\ \A c \in DOMAIN calls :
          /\ calls[c].pc = "done"
          /\ calls[c].got.tag \in {"return", "raise"}
          /\ calls[c].out.tag \in {"return", "raise"}

\* C17: when every HTTP attempt and every cooldown wait ends, every call
\* ends by returning or raising, whatever the answers are, 429 to every
\* attempt included, and so does the operation that made the calls.
C17_EveryCallTerminates == <>[]AllSettled

\* C17 witness: a bare _get answered 429 on each of its five attempts has
\* ended, raising
C17_Witness ==
    /\ AllSettled
    /\ opName = "_get"
    /\ throttle = 0
    /\ Len(calls[1].resps) = 5
    /\ opOut = Raise(RateLimitExceeded)

----------------------------------------------------------------------------
(* Properties of get_matches_for_summoners, checked under SpecMatches *)

\* every get_match_ids_by_puuid call has returned
IdsReturned ==
    /\ pcOp # "start"
    /\ \A i \in 1..Len(args.summoners) : calls[i].out.tag = "return"

\* the match IDs they returned
ReturnedIds == UNION {Range(calls[i].out.value) : i \in 1..Len(args.summoners)}

\* the get_match calls made for match ID m
Fetches(m) == {c \in DOMAIN calls : calls[c].kind = "match" /\ calls[c].arg = m}

\* C9: once the match-ID lists are in, there is exactly one get_match call
\* for every match ID that occurs in some list, and none for any other.
C9_OneFetchPerDistinctId ==
    IdsReturned
    => \A m \in MatchIds :
          /\ Cardinality(Fetches(m)) = IF m \in ReturnedIds THEN 1 ELSE 0
          /\ \A c \in Fetches(m) : calls[c].url = MatchUrl(m)

\* C9 witness: the lists [A, B] and [B] share B: two get_match calls, not three
C9_Witness ==
    /\ IdsReturned
    /\ Len(args.summoners) = 2
    /\ calls[1].out.value = <<"A", "B">>
    /\ calls[2].out.value = <<"B">>
    /\ Cardinality(Fetches("A")) = 1
    /\ Cardinality(Fetches("B")) = 1
    /\ Cardinality({c \in DOMAIN calls : calls[c].kind = "match"}) = 2

\* C10 as claimed: no two elements of a returned list are equal.
C10_ResultHasNoEqualMatches ==
    opOut.tag = "return"
    => \A i, j \in 1..Len(opOut.value) : i # j => opOut.value[i] # opOut.value[j]

\* C10 amended: the returned list holds one Match per distinct match ID, the
\* one decoded from the answer to the request for that ID; two elements are
\* different when each carries the match ID it was requested with.
C10_OneMatchPerDistinctId ==
    opOut.tag = "return"
    => /\ Len(opOut.value) = Cardinality(ReturnedIds)
       /\ {calls[tasks[i]].arg : i \in 1..Len(tasks)} = ReturnedIds
       /\ \A i \in 1..Len(opOut.value) :
             opOut.value[i] =
                Match(calls[tasks[i]].resps[Len(calls[tasks[i]].resps)].body)
       /\ \A i, j \in 1..Len(opOut.value) :
             /\ i # j
             /\ opOut.value[i].metadata.match_id = calls[tasks[i]].arg
             /\ opOut.value[j].metadata.match_id = calls[tasks[j]].arg
             => opOut.value[i] # opOut.value[j]

\* C10 witness: two summoners share match B, and the result holds the two
\* different matches A and B
C10_Witness ==
    /\ opOut.tag = "return"
    /\ Len(args.summoners) = 2
    /\ calls[1].out.value = <<"A", "B">>
    /\ calls[2].out.value = <<"B">>
    /\ Len(opOut.value) = 2
    /\ opOut.value[1] # opOut.value[2]

----------------------------------------------------------------------------
(* Properties of the decoding and dumping of records, checked under         *)
(* SpecRoundTrip                                                            *)

\* a record was decoded and the entity dumped
RoundTripped == opName = "model_dump" /\ pcOp = "done"

\* the keys on the wire of the fields an entity declares
DeclaredKeys(model) ==
    CASE model = "LeagueEntry" -> {"summonerId", "leaguePoints", "wins", "losses"}
      [] model = "Summoner" -> {"id", "accountId", "puuid", "summonerLevel"}
      [] model = "Participant" ->
            {"puuid", "championId", "championName", "win", "kills", "deaths", "assists",
             "totalDamageDealtToChampions", "goldEarned", "visionScore",
             "totalMinionsKilled"}
      [] model = "MatchMetadata" -> {"dataVersion", "matchId", "participants"}
      [] model = "MatchInfo" ->
            {"gameCreation", "gameDuration", "gameMode", "gameType", "gameVersion",
             "mapId", "participants"}
      [] model = "Match" -> {"metadata", "info"}

\* the record data cut down to the keys an entity declares
Declared(model, data) == [k \in DeclaredKeys(model) |-> data[k]]

\* dumped is the league entry data with 0 for the wins or losses it lacks
LeagueEntryKept(data, dumped) ==
    /\ DOMAIN dumped = DeclaredKeys("LeagueEntry")
    /\ \A k \in DeclaredKeys("LeagueEntry") :
          dumped[k] = IF k \in DOMAIN data THEN data[k] ELSE 0

\* dumped is the match info data cut down to the declared keys, its
\* participants cut down likewise, with gameCreation as a datetime
MatchInfoKept(data, dumped) ==
    /\ DOMAIN dumped = DeclaredKeys("MatchInfo")
    /\ \A k \in DeclaredKeys("MatchInfo") \ {"gameCreation", "participants"} :
          dumped[k] = data[k]
    /\ dumped.gameCreation # data.gameCreation
    /\ dumped.gameCreation = [utc_us |-> data.gameCreation.unix * 1000000]
    /\ Len(dumped.participants) = Len(data.participants)
    /\ \A i \in 1..Len(data.participants) :
          dumped.participants[i] = Declared("Participant", data.participants[i])

\* C15 as claimed: the dumped record has the keys and the values of the
\* response record it was decoded from.
C15_RoundTripReproducesResponse ==
    RoundTripped => opOut.value = args.data

\* C15 amended: the dumped record has exactly the keys the entity declares,
\* under their camelCase names, each with the value of the response, nested
\* records likewise; keys the entity does not declare are dropped, wins and
\* losses the response lacks are 0, and gameCreation is the datetime the
\* number of the response denotes.
C15_RoundTripKeepsDeclaredFields ==
    RoundTripped
    => LET data == args.data
           dumped == opOut.value
       IN  /\ DOMAIN dumped = DeclaredKeys(args.model)
           /\ args.model \in {"Summoner", "Participant", "MatchMetadata"}
              => dumped = Declared(args.model, data)
           /\ args.model = "LeagueEntry" => LeagueEntryKept(data, dumped)
           /\ args.model = "MatchInfo" => MatchInfoKept(data, dumped)
           /\ args.model = "Match"
              => /\ dumped.metadata = Declared("MatchMetadata", data.metadata)
                 /\ MatchInfoKept(data.info, dumped.info)
           /\ (args.model \notin {"MatchInfo", "Match"} /\ DOMAIN data = DeclaredKeys(args.model))
              => dumped = data

\* C15 witness: a match whose info has a key that Match does not declare and
\* two participants was decoded and dumped
C15_Witness ==
    /\ RoundTripped
    /\ args.model = "Match"
    /\ "gameId" \in DOMAIN args.data.info
    /\ "gameId" \notin DOMAIN opOut.value.info
    /\ Len(opOut.value.info.participants) = 2
    /\ opOut.value.metadata.matchId = args.data.metadata.matchId

----------------------------------------------------------------------------
(* Properties of combine_matches, checked under SpecCombine *)

\* combine_matches has returned
Combined == opName = "combine_matches" /\ pcOp = "done" /\ opOut.tag = "return"

\* the flattened input
CombineInput == Flatten(args.match_lists)

\* the place of the first occurrence of v in the flattened input
FirstSeen(v) ==
    CHOOSE k \in 1..Len(CombineInput) :
        CombineInput[k] = v /\ \A l \in 1..(k - 1) : CombineInput[l] # v

\* C11: the output of combine_matches holds no two equal elements, holds
\* every value of the flattened input exactly once and nothing else, and
\* lists the values in the order of their first occurrence in the input.
C11_FirstOccurrencesInOrder ==
    Combined
    => LET out == opOut.value
       IN  /\ \A i, j \in 1..Len(out) : i # j => out[i] # out[j]
           /\ Range(out) = Range(CombineInput)
           /\ \A v \in Range(CombineInput) :
                 Cardinality({i \in 1..Len(out) : out[i] = v}) = 1
           /\ \A i, j \in 1..Len(out) : i < j => FirstSeen(out[i]) < FirstSeen(out[j])

\* C11 witness: two lists; the second and third of four input matches are
\* equal and the output is the first, second and fourth
C11_Witness ==
    /\ Combined
    /\ Len(args.match_lists) = 2
    /\ Len(CombineInput) = 4
    /\ CombineInput[2] = CombineInput[3]
    /\ opOut.value = <<CombineInput[1], CombineInput[2], CombineInput[4]>>

\* C12: of two input matches with the same content one is kept; two input
\* matches that differ are both kept, also when they differ in gameDuration
\* alone and carry the same matchId.
C12_DedupByAllFields ==
    Combined
    => LET out == opOut.value
           Places(v) == {k \in 1..Len(out) : out[k] = v}
       IN  \A a, b \in Range(CombineInput) :
              /\ a = b => Cardinality(Places(a)) = 1
              /\ a # b => Places(a) # {} /\ Places(b) # {} /\ Places(a) # Places(b)
              /\ (/\ a.metadata.matchId = b.metadata.matchId
                  /\ a.info.gameDuration # b.info.gameDuration)
                 => \E k, l \in 1..Len(out) :
                       /\ k # l
                       /\ out[k] = a /\ out[l] = b
                       /\ out[k].metadata.matchId = out[l].metadata.matchId

\* C12 witness: the input holds the same match twice and a match of the same
\* matchId and another gameDuration; the output holds two matches of that matchId
C12_Witness ==
    /\ Combined
    /\ \E i, j, k \in 1..Len(CombineInput) :
          /\ i < j
          /\ CombineInput[i] = CombineInput[j]
          /\ CombineInput[k].metadata.matchId = CombineInput[i].metadata.matchId
          /\ CombineInput[k].info.gameDuration # CombineInput[i].info.gameDuration
    /\ Len(opOut.value) = 2
    /\ opOut.value[1].metadata.matchId = opOut.value[2].metadata.matchId
    /\ opOut.value[1].info.gameDuration # opOut.value[2].info.gameDuration

\* C19: combine_matches applied to its own output, as the only list, returns
\* that output: the same elements in the same order.
C19_DedupIsIdempotent ==
    Combined => combine_matches(<<opOut.value>>) = opOut.value

\* C19 witness: an input with repeated matches whose output, of several
\* matches, is returned unchanged by a second pass
C19_Witness ==
    /\ Combined
    /\ Len(opOut.value) >= 2
    /\ Len(CombineInput) > Len(opOut.value)
    /\ UniqueMatches(AllMatches(<<opOut.value>>)) = AllMatches(<<opOut.value>>)

====
